---- MODULE Spec2Model ----
(***************************************************************************)
(* Shared-memory frame queue of producer/test.cpp: one producer process    *)
(* (main + write_frame) and one consumer process that follows the dequeue  *)
(* contract of spec section 4.4.  The shared region holds a three-integer  *)
(* control block ctrl[0..2] and QUEUE_SIZE slots; two named counting       *)
(* semaphores and one named mutex are kernel objects that live as long as  *)
(* some process holds a handle to them.                                    *)
(*                                                                         *)
(* Spec      one run of the producer whose startup calls all succeed,      *)
(*           interleaved with the consumer.                                *)
(* SpecLife  the same plus failing startup calls and a producer that is    *)
(*           started again after it has exited.                            *)
(***************************************************************************)
EXTENDS Integers, Sequences, FiniteSets

\* ------------------------------------------------------------------ sizes
\* queue capacity (test.cpp:27)
QUEUE_SIZE == 5
\* scaled down: the program has MAX_DETECTIONS = 200 (test.cpp:26)
MAX_DETECTIONS == 2
\* scaled down: the program has 640 x 640 x 3 (test.cpp:22-24)
INPUT_WIDTH == 2
INPUT_HEIGHT == 1
CHANNELS == 1
\* frames the producer enqueues in a behaviour, over all its runs
MaxFrames == 7
\* times the producer program is started in a behaviour
MaxRuns == 2
\* frames enqueued in a behaviour in which the producer is started again or a
\* startup call fails
MaxLifeFrames == 2

Procs == {"producer", "consumer"}
Objs == {"shm", "empty", "full", "mutex"}

\* ------------------------------------------------------------- slot layout
\* struct DetectionRecord, with every field zero (memset(p, 0, 24))
ZeroDet ==
  [class_id |-> 0, confidence |-> 0, x |-> 0, y |-> 0, width |-> 0, height |-> 0]

\* size_t image_size = INPUT_WIDTH * INPUT_HEIGHT * CHANNELS
image_size == INPUT_WIDTH * INPUT_HEIGHT * CHANNELS

\* memset(p, 0, image_size)
ZeroImage == [i \in 1..image_size |-> 0]

\* a slot of a freshly created mapping: the system hands out zeroed pages
ZeroSlot ==
  [frame_id |-> 0, width |-> 0, height |-> 0, channels |-> 0, num |-> 0,
   dets |-> [i \in 1..MAX_DETECTIONS |-> ZeroDet], image |-> ZeroImage]

ZeroCtrl == [i \in 0..2 |-> 0]

\* ------------------------------------------------------- byte layout
\* sizeof(int)
SizeofInt == 4

\* constexpr size_t DET_RECORD_SIZE = 24
DET_RECORD_SIZE == 24

\* 3 * sizeof(int): write_idx, read_idx, count
CTRL_SIZE == 3 * SizeofInt

\* 5 * sizeof(int): the header
HEADER_SIZE == 5 * SizeofInt

\* constexpr size_t SLOT_SIZE: header, detections, image
SLOT_SIZE == HEADER_SIZE + MAX_DETECTIONS * DET_RECORD_SIZE + image_size

\* constexpr size_t SHM_SIZE
SHM_SIZE == CTRL_SIZE + QUEUE_SIZE * SLOT_SIZE

\* mutant of SlotOffset: the control block is not skipped
SlotOffset_NoCtrl(i) == i * SLOT_SIZE

\* uint8_t* slot = shm + 3 * sizeof(int) + write_idx * SLOT_SIZE, as an offset
\* from shm
SlotOffset(i) == CTRL_SIZE + i * SLOT_SIZE

\* the n bytes a memcpy or memset at offset a stores
Bytes(a, n) == a..(a + n - 1)

\* what the detection loop adds to p: six memcpy's of an int for an entry
\* below n, one memset of a record for the others
DetsBytes(n) ==
  n * (6 * SizeofInt) + (MAX_DETECTIONS - n) * DET_RECORD_SIZE

\* ------------------------------------------------- upstream frame inputs
\* what main hands to write_frame for one frame: three parallel vectors of
\* equal length and the resized image.  The confidence is a 32-bit pattern
\* that is copied, written here in hundredths.
Box(x, y, w, h) == [x |-> x, y |-> y, width |-> w, height |-> h]

GrayImage == [i \in 1..image_size |-> 114]

FrameInputs ==
  { [class_ids |-> <<3>>, confs |-> <<91>>, boxes |-> <<Box(10, 20, 30, 40)>>,
     image |-> GrayImage],
    [class_ids |-> [i \in 1..(MAX_DETECTIONS + 1) |-> 6 + i],
     confs |-> [i \in 1..(MAX_DETECTIONS + 1) |-> 50 + i],
     boxes |-> [i \in 1..(MAX_DETECTIONS + 1) |-> Box(i, 0, 5, 5)],
     image |-> <<7>>] }

NoInput == [class_ids |-> <<>>, confs |-> <<>>, boxes |-> <<>>, image |-> <<>>]

\* ------------------------------------------------------------------ state
VARIABLES
  open,       \* open[o]: the processes holding a handle to named object o
  ctrl,       \* control block: ctrl[0] write_idx, ctrl[1] read_idx, ctrl[2] count
  slots,      \* slots[i], i in 0..QUEUE_SIZE-1
  semEmpty,   \* count of the semaphore YOLO_EMPTY
  semFull,    \* count of the semaphore YOLO_FULL
  mutex,      \* owner of the mutex YOLO_MUTEX, or "none"
  ppc,        \* producer: statement it is about to execute
  shm,        \* producer: MapViewOfFile returned a non-null view
  pCreated,   \* producer: its CreateFileMapping created the region
  pFailed,    \* producer: a startup call of this run has failed
  runs,       \* producer: times the program has been started
  frame_id,   \* producer: main's frame counter
  cur,        \* producer: arguments of the write_frame call in progress
  write_idx,  \* producer: write_frame's local write_idx
  num,        \* producer: write_frame's local num
  cursor,     \* producer: write_frame's local p, as an offset from shm
  written,    \* producer: offsets of the bytes write_frame has stored in its call
  cpc,        \* consumer: statement it is about to execute
  cframe,     \* consumer: its private copy of the slot it read
  enqueued,   \* history: arguments of every completed write_frame, in order
  dequeued    \* history: every record the consumer has read, in order

vars ==
  <<open, ctrl, slots, semEmpty, semFull, mutex, ppc, shm, pCreated, pFailed,
    runs, frame_id, cur, write_idx, num, cursor, written, cpc, cframe, enqueued,
    dequeued>>

kernel == <<open, semEmpty, semFull, mutex>>
memory == <<ctrl, slots>>
plocals ==
  <<shm, pCreated, pFailed, runs, frame_id, cur, write_idx, num, cursor, written>>
cvars == <<cpc, cframe>>
history == <<enqueued, dequeued>>

Init ==
  /\ open = [o \in Objs |-> {}]
  /\ ctrl = ZeroCtrl
  /\ slots = [i \in 0..(QUEUE_SIZE - 1) |-> ZeroSlot]
  /\ semEmpty = 0
  /\ semFull = 0
  /\ mutex = "none"
  /\ ppc = "p_create_map"
  /\ shm = FALSE
  /\ pCreated = FALSE
  /\ pFailed = FALSE
  /\ runs = 1
  /\ frame_id = 0
  /\ cur = NoInput
  /\ write_idx = 0
  /\ num = 0
  /\ cursor = 0
  /\ written = {}
  /\ cpc = "c_start"
  /\ cframe = ZeroSlot
  /\ enqueued = <<>>
  /\ dequeued = <<>>


\* ------------------------------------------------------- kernel objects
\* a named object exists while some process holds a handle to it
Exists(o) == open[o] # {}

\* mutant of CreateSemaphore: the initial count is one too many
CreateSemaphore_OneMore(count, exists, initial) ==
  IF exists THEN count ELSE initial + 1

\* CreateSemaphore(nullptr, initial, QUEUE_SIZE, name) creates the object with
\* its initial count, or opens the existing one and leaves its count alone
CreateSemaphore(count, exists, initial) == IF exists THEN count ELSE initial

\* process exit closes every handle of process p; an object whose last handle
\* is closed is destroyed
Closed(p) == [o \in Objs |-> open[o] \ {p}]

ProcessExit(p) ==
  /\ open' = Closed(p)
  /\ semEmpty' = IF Closed(p)["empty"] = {} THEN 0 ELSE semEmpty
  /\ semFull' = IF Closed(p)["full"] = {} THEN 0 ELSE semFull
  /\ mutex' = IF Closed(p)["mutex"] = {} \/ mutex = p THEN "none" ELSE mutex
  /\ ctrl' = IF Closed(p)["shm"] = {} THEN ZeroCtrl ELSE ctrl
  /\ slots' = IF Closed(p)["shm"] = {}
                THEN [i \in 0..(QUEUE_SIZE - 1) |-> ZeroSlot] ELSE slots

\* the producer's locals when it is not running
ResetProducer ==
  /\ shm' = FALSE
  /\ pCreated' = FALSE
  /\ frame_id' = 0
  /\ cur' = NoInput
  /\ write_idx' = 0
  /\ num' = 0
  /\ cursor' = 0
  /\ written' = {}

\* ------------------------------------------------------ producer: startup
\* HANDLE hMap = CreateFileMapping(..., SHM_NAME) succeeds
P_CreateMapOk ==
  /\ ppc = "p_create_map"
  /\ pCreated' = ~Exists("shm")
  /\ open' = [open EXCEPT !["shm"] = @ \cup {"producer"}]
  /\ ppc' = "p_map_view"
  /\ UNCHANGED <<memory, semEmpty, semFull, mutex, shm, pFailed, runs, frame_id,
                 cur, write_idx, num, cursor, written,
                 cvars, history>>

\* if (!hMap) return -1
P_CreateMapFail ==
  /\ ppc = "p_create_map"
  /\ pFailed' = TRUE
  /\ ppc' = "p_exited"
  /\ ProcessExit("producer")
  /\ ResetProducer
  /\ UNCHANGED <<runs, cvars, history>>

\* uint8_t* shm = MapViewOfFile(...) returns a view
P_MapViewOk ==
  /\ ppc = "p_map_view"
  /\ shm' = TRUE
  /\ ppc' = "p_create_sync"
  /\ UNCHANGED <<kernel, memory, pCreated, pFailed, runs, frame_id, cur,
                 write_idx, num, cursor, written,
                 cvars, history>>

\* MapViewOfFile returns NULL; main does not test it
P_MapViewFail ==
  /\ ppc = "p_map_view"
  /\ shm' = FALSE
  /\ pFailed' = TRUE
  /\ ppc' = "p_create_sync"
  /\ UNCHANGED <<kernel, memory, pCreated, runs, frame_id, cur, write_idx,
                 num, cursor, written, cvars, history>>

\* the three Create calls of main; okE, okF, okM say which of them return a
\* handle.  main tests none of the results.
P_CreateSync(okE, okF, okM) ==
  /\ ppc = "p_create_sync"
  /\ semEmpty' = IF okE THEN CreateSemaphore(semEmpty, Exists("empty"), QUEUE_SIZE)
                        ELSE semEmpty
  /\ semFull' = IF okF THEN CreateSemaphore(semFull, Exists("full"), 0)
                       ELSE semFull
  /\ open' = [o \in Objs |->
                IF \/ o = "empty" /\ okE
                   \/ o = "full" /\ okF
                   \/ o = "mutex" /\ okM
                  THEN open[o] \cup {"producer"} ELSE open[o]]
  /\ pFailed' = (pFailed \/ ~(okE /\ okF /\ okM))
  /\ ppc' = "p_init_ctrl"
  /\ UNCHANGED <<memory, mutex, shm, pCreated, runs, frame_id, cur,
                 write_idx, num, cursor, written,
                 cvars, history>>

P_CreateSyncOk == P_CreateSync(TRUE, TRUE, TRUE)

P_CreateSyncFail ==
  \E okE, okF, okM \in BOOLEAN :
    /\ ~(okE /\ okF /\ okM)
    /\ P_CreateSync(okE, okF, okM)

\* ctrl[0] = 0; ctrl[1] = 0; ctrl[2] = 0;  written whoever created the region
InitCtrl(c) == [c EXCEPT ![0] = 0, ![1] = 0, ![2] = 0]

P_InitCtrl ==
  /\ ppc = "p_init_ctrl"
  /\ shm
  /\ ctrl' = InitCtrl(ctrl)
  /\ ppc' = "p_loop"
  /\ UNCHANGED <<kernel, slots, plocals, cvars, history>>

\* ctrl is a null pointer: the store faults and the process dies
P_InitCtrlFault ==
  /\ ppc = "p_init_ctrl"
  /\ ~shm
  /\ ppc' = "p_exited"
  /\ ProcessExit("producer")
  /\ ResetProducer
  /\ UNCHANGED <<pFailed, runs, cvars, history>>

\* ------------------------------------------------- producer: video loop
\* frames a behaviour may enqueue
FrameLimit == IF runs > 1 \/ pFailed THEN MaxLifeFrames ELSE MaxFrames

\* mutant of P_NextFrame: the counter is incremented twice per frame
P_NextFrame_CountsTwice ==
  /\ ppc = "p_loop"
  /\ Len(enqueued) < FrameLimit
  /\ frame_id' = frame_id + 2
  /\ \E in \in FrameInputs : cur' = in
  /\ ppc' = "p_wait_empty"
  /\ UNCHANGED <<kernel, memory, shm, pCreated, pFailed, runs, write_idx,
                 num, cursor, written, cvars, history>>

\* while (cap.read(frame)) { frame_id++; ... write_frame(...) }
P_NextFrame ==
  /\ ppc = "p_loop"
  /\ Len(enqueued) < FrameLimit
  /\ frame_id' = frame_id + 1
  /\ \E in \in FrameInputs : cur' = in
  /\ ppc' = "p_wait_empty"
  /\ UNCHANGED <<kernel, memory, shm, pCreated, pFailed, runs, write_idx,
                 num, cursor, written, cvars, history>>

\* the video cannot be opened or ends, or the model fails to load or run:
\* main returns
P_Exit ==
  /\ ppc = "p_loop"
  /\ ppc' = "p_exited"
  /\ ProcessExit("producer")
  /\ ResetProducer
  /\ UNCHANGED <<pFailed, runs, cvars, history>>

\* the program is started again
P_Restart ==
  /\ ppc = "p_exited"
  /\ runs < MaxRuns
  /\ Len(enqueued) < MaxLifeFrames
  /\ runs' = runs + 1
  /\ ppc' = "p_create_map"
  /\ pFailed' = FALSE
  /\ UNCHANGED <<kernel, memory, shm, pCreated, frame_id, cur, write_idx, num,
                 cursor, written, cvars, history>>

\* ---------------------------------------------------- producer: write_frame
\* WaitForSingleObject on a handle this process holds; on a null handle the
\* call returns WAIT_FAILED at once and write_frame goes on
Holds(p, o) == p \in open[o]

\* mutant of ClampNum: the count is not clamped
ClampNum_NoClamp(n) == n

\* int num = boxes.size(); if (num > MAX_DETECTIONS) num = MAX_DETECTIONS;
ClampNum(n) == IF n > MAX_DETECTIONS THEN MAX_DETECTIONS ELSE n

\* mutant of WriteHeader: only frame_id and the count are stored
WriteHeader_NoDims(slot, id, n) ==
  [slot EXCEPT !.frame_id = id, !.num = n]

\* the five header memcpy's
WriteHeader(slot, id, n) ==
  [slot EXCEPT !.frame_id = id, !.width = INPUT_WIDTH, !.height = INPUT_HEIGHT,
               !.channels = CHANNELS, !.num = n]

\* mutant of WriteDetections: the entries past the count are left as they were
WriteDetections_NoPad(slot, n, in) ==
  [slot EXCEPT !.dets =
     [i \in 1..MAX_DETECTIONS |->
        IF i - 1 < n
          THEN [class_id |-> in.class_ids[i], confidence |-> in.confs[i],
                x |-> in.boxes[i].x, y |-> in.boxes[i].y,
                width |-> in.boxes[i].width, height |-> in.boxes[i].height]
          ELSE slot.dets[i]]]

\* for (i = 0; i < MAX_DETECTIONS; i++) record i of the input, or 24 zero bytes
WriteDetections(slot, n, in) ==
  [slot EXCEPT !.dets =
     [i \in 1..MAX_DETECTIONS |->
        IF i - 1 < n
          THEN [class_id |-> in.class_ids[i], confidence |-> in.confs[i],
                x |-> in.boxes[i].x, y |-> in.boxes[i].y,
                width |-> in.boxes[i].width, height |-> in.boxes[i].height]
          ELSE ZeroDet]]

\* mutant of WriteImage: a buffer of the wrong size leaves the region as it was
WriteImage_NoZero(slot, image) ==
  [slot EXCEPT !.image = IF Len(image) = image_size THEN image ELSE @]

\* memcpy of the image when its size is image_size, else memset 0
WriteImage(slot, image) ==
  [slot EXCEPT !.image = IF Len(image) = image_size THEN image ELSE ZeroImage]

\* mutants of NextWriteIdx: the index is not advanced; it is advanced without
\* wrapping; it wraps one position late
NextWriteIdx_Stuck(w) == w

NextWriteIdx_NoWrap(w) == w + 1

NextWriteIdx_WrapLate(w) == (w + 1) % (QUEUE_SIZE + 1)

\* ctrl[0] = (write_idx + 1) % QUEUE_SIZE
NextWriteIdx(w) == (w + 1) % QUEUE_SIZE

\* mutant of P_WaitEmpty: the wait gives up at once (timeout 0, result unused)
P_WaitEmpty_NoWait ==
  /\ ppc = "p_wait_empty"
  /\ semEmpty' = IF semEmpty > 0 THEN semEmpty - 1 ELSE semEmpty
  /\ ppc' = "p_wait_mutex"
  /\ UNCHANGED <<open, semFull, mutex, memory, plocals, cvars, history>>

\* WaitForSingleObject(semEmpty, INFINITE)
P_WaitEmpty ==
  /\ ppc = "p_wait_empty"
  /\ IF Holds("producer", "empty")
       THEN semEmpty > 0 /\ semEmpty' = semEmpty - 1
       ELSE semEmpty' = semEmpty
  /\ ppc' = "p_wait_mutex"
  /\ UNCHANGED <<open, semFull, mutex, memory, plocals, cvars, history>>

\* WaitForSingleObject(mutex, INFINITE)
P_WaitMutex ==
  /\ ppc = "p_wait_mutex"
  /\ IF Holds("producer", "mutex")
       THEN mutex \in {"none", "producer"} /\ mutex' = "producer"
       ELSE mutex' = mutex
  /\ ppc' = "p_read_idx"
  /\ UNCHANGED <<open, semEmpty, semFull, memory, plocals, cvars, history>>

\* int write_idx = ctrl[0]; slot = shm + 12 + write_idx * SLOT_SIZE; num
P_ReadIdx ==
  /\ ppc = "p_read_idx"
  /\ write_idx' = ctrl[0]
  /\ cursor' = SlotOffset(ctrl[0])
  /\ written' = {}
  /\ num' = ClampNum(Len(cur.boxes))
  /\ ppc' = "p_write_header"
  /\ UNCHANGED <<kernel, memory, shm, pCreated, pFailed, runs, frame_id, cur,
                 cvars, history>>

P_WriteHeader ==
  /\ ppc = "p_write_header"
  /\ slots' = [slots EXCEPT ![write_idx] = WriteHeader(@, frame_id, num)]
  /\ written' = written \cup Bytes(cursor, HEADER_SIZE)
  /\ cursor' = cursor + HEADER_SIZE
  /\ ppc' = "p_write_dets"
  /\ UNCHANGED <<kernel, ctrl, shm, pCreated, pFailed, runs, frame_id, cur,
                 write_idx, num, cvars, history>>

P_WriteDets ==
  /\ ppc = "p_write_dets"
  /\ slots' = [slots EXCEPT ![write_idx] = WriteDetections(@, num, cur)]
  /\ written' = written \cup Bytes(cursor, DetsBytes(num))
  /\ cursor' = cursor + DetsBytes(num)
  /\ ppc' = "p_write_image"
  /\ UNCHANGED <<kernel, ctrl, shm, pCreated, pFailed, runs, frame_id, cur,
                 write_idx, num, cvars, history>>

P_WriteImage ==
  /\ ppc = "p_write_image"
  /\ slots' = [slots EXCEPT ![write_idx] = WriteImage(@, cur.image)]
  /\ written' = written \cup Bytes(cursor, image_size)
  /\ ppc' = "p_advance"
  /\ UNCHANGED <<kernel, ctrl, shm, pCreated, pFailed, runs, frame_id, cur,
                 write_idx, num, cursor, cvars, history>>

\* mutant of P_Advance: total_written is not incremented
P_Advance_NoCount ==
  /\ ppc = "p_advance"
  /\ ctrl' = [ctrl EXCEPT ![0] = NextWriteIdx(write_idx)]
  /\ ppc' = "p_release_mutex"
  /\ UNCHANGED <<kernel, slots, plocals, cvars, history>>

\* mutant of P_Advance: the increment goes to ctrl[1]
P_Advance_WrongField ==
  /\ ppc = "p_advance"
  /\ ctrl' = [ctrl EXCEPT ![0] = NextWriteIdx(write_idx), ![1] = @ + 1]
  /\ ppc' = "p_release_mutex"
  /\ UNCHANGED <<kernel, slots, plocals, cvars, history>>

\* ctrl[0] = (write_idx + 1) % QUEUE_SIZE; ctrl[2]++;
P_Advance ==
  /\ ppc = "p_advance"
  /\ ctrl' = [ctrl EXCEPT ![0] = NextWriteIdx(write_idx), ![2] = @ + 1]
  /\ ppc' = "p_release_mutex"
  /\ UNCHANGED <<kernel, slots, plocals, cvars, history>>

\* mutant of P_ReleaseMutex: the mutex is not released
P_ReleaseMutex_Forgotten ==
  /\ ppc = "p_release_mutex"
  /\ ppc' = "p_signal_full"
  /\ UNCHANGED <<kernel, memory, plocals, cvars, history>>

\* ReleaseMutex(mutex): fails, changing nothing, unless the caller owns it
P_ReleaseMutex ==
  /\ ppc = "p_release_mutex"
  /\ mutex' = IF mutex = "producer" THEN "none" ELSE mutex
  /\ ppc' = "p_signal_full"
  /\ UNCHANGED <<open, semEmpty, semFull, memory, plocals, cvars, history>>

\* mutant of P_SignalFull: the semaphore is not released
P_SignalFull_NoRelease ==
  /\ ppc = "p_signal_full"
  /\ enqueued' = Append(enqueued, [frame_id |-> frame_id, in |-> cur])
  /\ ppc' = "p_loop"
  /\ UNCHANGED <<kernel, memory, plocals, cvars, dequeued>>

\* ReleaseSemaphore(semFull, 1, nullptr): fails, changing nothing, on a null
\* handle or when the count would pass its maximum; write_frame returns
P_SignalFull ==
  /\ ppc = "p_signal_full"
  /\ semFull' = IF Holds("producer", "full") /\ semFull < QUEUE_SIZE
                  THEN semFull + 1 ELSE semFull
  /\ enqueued' = Append(enqueued, [frame_id |-> frame_id, in |-> cur])
  /\ ppc' = "p_loop"
  /\ UNCHANGED <<open, semEmpty, mutex, memory, plocals, cvars, dequeued>>

\* ------------------------------------------- consumer (spec 4.4 and 6)
\* create or open the mapping, the semaphores and the lock; initialize the
\* control block only as the creator of the region
C_Start ==
  /\ cpc = "c_start"
  /\ ctrl' = IF Exists("shm") THEN ctrl ELSE InitCtrl(ctrl)
  /\ semEmpty' = CreateSemaphore(semEmpty, Exists("empty"), QUEUE_SIZE)
  /\ semFull' = CreateSemaphore(semFull, Exists("full"), 0)
  /\ open' = [o \in Objs |-> open[o] \cup {"consumer"}]
  /\ cpc' = "c_wait_full"
  /\ UNCHANGED <<mutex, slots, ppc, plocals, cframe, history>>

\* block on full_count
C_WaitFull ==
  /\ cpc = "c_wait_full"
  /\ semFull > 0
  /\ semFull' = semFull - 1
  /\ cpc' = "c_wait_mutex"
  /\ UNCHANGED <<open, semEmpty, mutex, memory, ppc, plocals, cframe, history>>

\* acquire exclusive_lock
C_WaitMutex ==
  /\ cpc = "c_wait_mutex"
  /\ mutex \in {"none", "consumer"}
  /\ mutex' = "consumer"
  /\ cpc' = "c_read"
  /\ UNCHANGED <<open, semEmpty, semFull, memory, ppc, plocals, cframe, history>>

\* read read_index and the slot at slot_offset(read_index) in full
C_Read ==
  /\ cpc = "c_read"
  /\ cframe' = slots[ctrl[1]]
  /\ dequeued' = Append(dequeued, slots[ctrl[1]])
  /\ cpc' = "c_advance"
  /\ UNCHANGED <<kernel, memory, ppc, plocals, enqueued>>

\* read_index = (read_index + 1) mod capacity
C_Advance ==
  /\ cpc = "c_advance"
  /\ ctrl' = [ctrl EXCEPT ![1] = (@ + 1) % QUEUE_SIZE]
  /\ cpc' = "c_release_mutex"
  /\ UNCHANGED <<kernel, slots, ppc, plocals, cframe, history>>

\* release the lock
C_ReleaseMutex ==
  /\ cpc = "c_release_mutex"
  /\ mutex' = IF mutex = "consumer" THEN "none" ELSE mutex
  /\ cpc' = "c_signal_empty"
  /\ UNCHANGED <<open, semEmpty, semFull, memory, ppc, plocals, cframe, history>>

\* signal empty_count
C_SignalEmpty ==
  /\ cpc = "c_signal_empty"
  /\ semEmpty' = IF semEmpty < QUEUE_SIZE THEN semEmpty + 1 ELSE semEmpty
  /\ cpc' = "c_wait_full"
  /\ UNCHANGED <<open, semFull, mutex, memory, ppc, plocals, cframe, history>>

\* ---------------------------------------------------------- specifications
Next ==
  \/ P_CreateMapOk \/ P_MapViewOk \/ P_CreateSyncOk \/ P_InitCtrl
  \/ P_NextFrame \/ P_Exit
  \/ P_WaitEmpty \/ P_WaitMutex \/ P_ReadIdx \/ P_WriteHeader \/ P_WriteDets
  \/ P_WriteImage \/ P_Advance \/ P_ReleaseMutex \/ P_SignalFull
  \/ C_Start \/ C_WaitFull \/ C_WaitMutex \/ C_Read \/ C_Advance
  \/ C_ReleaseMutex \/ C_SignalEmpty

Spec == Init /\ [][Next]_vars

NextLife ==
  \/ Next
  \/ P_CreateMapFail \/ P_MapViewFail \/ P_CreateSyncFail \/ P_InitCtrlFault
  \/ P_Restart

SpecLife == Init /\ [][NextLife]_vars

\* ------------------------------------------------------------ properties
\* statements of write_frame, and of the dequeue, between the semaphore wait
\* and the semaphore signal
InWriteFrame ==
  {"p_wait_empty", "p_wait_mutex", "p_read_idx", "p_write_header",
   "p_write_dets", "p_write_image", "p_advance", "p_release_mutex",
   "p_signal_full"}

InDequeue ==
  {"c_wait_mutex", "c_read", "c_advance", "c_release_mutex", "c_signal_empty"}

\* statements that store into the control block or into a slot
ProducerStores ==
  {"p_init_ctrl", "p_write_header", "p_write_dets", "p_write_image", "p_advance"}

ConsumerStores == {"c_advance"}

\* statements inside the critical section
ProducerCritical ==
  {"p_read_idx", "p_write_header", "p_write_dets", "p_write_image", "p_advance",
   "p_release_mutex"}

ConsumerCritical == {"c_read", "c_advance", "c_release_mutex"}

Min(a, b) == IF a < b THEN a ELSE b

\* detection i of the arguments of a call
InputDet(in, i) ==
  [class_id |-> in.class_ids[i], confidence |-> in.confs[i],
   x |-> in.boxes[i].x, y |-> in.boxes[i].y,
   width |-> in.boxes[i].width, height |-> in.boxes[i].height]

\* the record spec 4.3 requires a completed enqueue e to leave in its slot
Expected(e) ==
  [frame_id |-> e.frame_id, width |-> INPUT_WIDTH, height |-> INPUT_HEIGHT,
   channels |-> CHANNELS, num |-> Min(Len(e.in.boxes), MAX_DETECTIONS),
   dets |-> [i \in 1..MAX_DETECTIONS |->
               IF i <= Len(e.in.boxes) THEN InputDet(e.in, i) ELSE ZeroDet],
   image |-> IF Len(e.in.image) = image_size THEN e.in.image ELSE ZeroImage]

\* header and detection fields of record r are those of enqueue e
SameHeaderAndDetections(r, e) ==
  /\ r.frame_id = e.frame_id
  /\ r.width = INPUT_WIDTH /\ r.height = INPUT_HEIGHT /\ r.channels = CHANNELS
  /\ r.num = Min(Len(e.in.boxes), MAX_DETECTIONS)
  /\ \A i \in 1..r.num : r.dets[i] = InputDet(e.in, i)

\* C1: the frames the consumer has dequeued are the first frames the producer
\* enqueued, in the same order, none skipped, repeated or altered in its
\* header and detection fields.
C1_Fifo ==
  /\ Len(dequeued) <= Len(enqueued)
  /\ \A i \in 1..Len(dequeued) : SameHeaderAndDetections(dequeued[i], enqueued[i])

\* the consumer has drained more frames than the queue has slots, of both kinds
C1_Witness ==
  /\ Len(dequeued) > QUEUE_SIZE
  /\ \E i, j \in 1..Len(dequeued) : dequeued[i].num # dequeued[j].num

\* slot i holds a frame that is enqueued and not yet dequeued
HoldsOutstanding(i) ==
  \E k \in (Len(dequeued) + 1)..Len(enqueued) :
    slots[i].frame_id = enqueued[k].frame_id

\* C2: write_frame passes its wait on empty_count only when the count is
\* positive, and no step of write_frame changes a slot that holds a frame
\* enqueued and not yet dequeued.
C2_Backpressure ==
  [][/\ (ppc = "p_wait_empty" /\ ppc' # ppc) => semEmpty > 0
     /\ \A i \in 0..(QUEUE_SIZE - 1) :
          (ppc \in InWriteFrame /\ slots'[i] # slots[i]) => ~HoldsOutstanding(i)]_vars

\* the producer took the last empty slot and is about to rewrite a slot that
\* was used before
C2_Witness ==
  /\ ppc = "p_write_header"
  /\ semEmpty = 0
  /\ Len(enqueued) >= QUEUE_SIZE
  /\ slots[write_idx].frame_id # 0

ProducerBlocked ==
  \/ ppc = "p_wait_empty" /\ Holds("producer", "empty") /\ semEmpty = 0
  \/ ppc = "p_wait_mutex" /\ Holds("producer", "mutex")
       /\ mutex \notin {"none", "producer"}

ConsumerBlocked ==
  \/ cpc = "c_wait_full" /\ semFull = 0
  \/ cpc = "c_wait_mutex" /\ mutex \notin {"none", "consumer"}

\* C3: the producer and the consumer are never both blocked.
C3_NoDeadlock == ~(ProducerBlocked /\ ConsumerBlocked)

\* the producer is blocked on the full queue while the consumer is inside a
\* dequeue
C3_Witness == ppc = "p_wait_empty" /\ semEmpty = 0 /\ cpc \in InDequeue

\* C4: a process that is about to store into the control block or a slot holds
\* the mutex, at startup too, and the two are never both in the critical
\* section.
C4_StoresUnderLock ==
  /\ ppc \in ProducerStores => mutex = "producer"
  /\ cpc \in ConsumerStores => mutex = "consumer"
  /\ ~(ppc \in ProducerCritical /\ cpc \in ConsumerCritical)

\* C5: the startup of a producer that did not create the region leaves the
\* control block as it found it.
C5_InitOnlyByCreator ==
  [][(ppc = "p_init_ctrl" /\ ppc' # ppc /\ ~pCreated) => ctrl' = ctrl]_vars

\* C8: once a startup call of the producer has failed, the producer gets no
\* further than the statement that initializes the control block.
C8_FailedStartupAborts ==
  pFailed => ppc \in {"p_map_view", "p_create_sync", "p_init_ctrl", "p_exited"}

\* no enqueue and no dequeue is in progress, and both semaphores exist
Quiescent ==
  /\ Exists("empty") /\ Exists("full")
  /\ ppc \notin InWriteFrame
  /\ cpc \notin InDequeue

\* C6: in every quiescent state full_count + empty_count = capacity.
C6_Conservation == Quiescent => semFull + semEmpty = QUEUE_SIZE

\* a quiescent state after the queue has wrapped, with frames on both sides
C6_Witness ==
  /\ Quiescent
  /\ Len(enqueued) > QUEUE_SIZE
  /\ semFull = 2
  /\ cpc = "c_wait_full"

\* C7: the slot the consumer is about to read holds the complete record of one
\* completed enqueue, and the return of write_frame raises the number of
\* frames available to the consumer by one.
C7_NoPartialWrite ==
  /\ [](cpc = "c_read" =>
          \E k \in 1..Len(enqueued) : slots[ctrl[1]] = Expected(enqueued[k]))
  /\ [][(ppc = "p_signal_full" /\ ppc' # ppc) => semFull' = semFull + 1]_vars

\* the consumer is about to read a slot that has been rewritten, with the
\* producer waiting for the lock to write the next one
C7_Witness ==
  /\ cpc = "c_read"
  /\ slots[ctrl[1]].frame_id > QUEUE_SIZE
  /\ ppc = "p_wait_mutex"

\* C9: after k completed enqueues write_index is k mod capacity, and the
\* enqueue in progress, the k-th counting from 0, writes slot k mod capacity.
C9_WriteIndex ==
  /\ ppc \in {"p_loop", "p_wait_empty", "p_wait_mutex", "p_read_idx",
              "p_write_header", "p_write_dets", "p_write_image", "p_advance"}
       => ctrl[0] = Len(enqueued) % QUEUE_SIZE
  /\ ppc \in {"p_write_header", "p_write_dets", "p_write_image", "p_advance"}
       => write_idx = Len(enqueued) % QUEUE_SIZE
  /\ ppc \in {"p_release_mutex", "p_signal_full"}
       => ctrl[0] = (Len(enqueued) + 1) % QUEUE_SIZE

\* the enqueue after the queue wrapped writes slot 0 again
C9_Witness ==
  /\ ppc = "p_write_image"
  /\ Len(enqueued) = QUEUE_SIZE
  /\ write_idx = 0

\* C10: write_index and read_index lie in [0, capacity), and their difference
\* modulo capacity is at most the number of slots the semaphores say are not
\* empty, capacity - empty_count; in a quiescent state that number is
\* full_count and the difference equals it modulo capacity.
C10_ControlBlock ==
  /\ ctrl[0] \in 0..(QUEUE_SIZE - 1)
  /\ ctrl[1] \in 0..(QUEUE_SIZE - 1)
  /\ Exists("empty") => (ctrl[0] - ctrl[1]) % QUEUE_SIZE <= QUEUE_SIZE - semEmpty
  /\ Quiescent => (ctrl[0] - ctrl[1]) % QUEUE_SIZE = semFull % QUEUE_SIZE

\* both indices have wrapped and differ
C10_Witness ==
  /\ Len(dequeued) > QUEUE_SIZE
  /\ ctrl[0] = 2
  /\ ctrl[1] = 1
  /\ semEmpty = QUEUE_SIZE - 1

\* --------------------------------------------------------------- fairness
\* the statements of write_frame, and those of the consumer: the scheduler
\* runs a process whose next statement can execute
WriteFrameStep ==
  \/ P_WaitEmpty \/ P_WaitMutex \/ P_ReadIdx \/ P_WriteHeader \/ P_WriteDets
  \/ P_WriteImage \/ P_Advance \/ P_ReleaseMutex \/ P_SignalFull

ConsumerStep ==
  \/ C_Start \/ C_WaitFull \/ C_WaitMutex \/ C_Read \/ C_Advance
  \/ C_ReleaseMutex \/ C_SignalEmpty

SpecFair ==
  Init /\ [][Next]_vars /\ WF_vars(WriteFrameStep) /\ WF_vars(ConsumerStep)

\* C11: under fair scheduling of both processes every write_frame call
\* returns, a call blocked on empty_count included; a blocked call gets past
\* its wait only through the consumer's signal of empty_count.
C11_EnqueueReturns ==
  /\ (ppc \in InWriteFrame) ~> (ppc = "p_loop")
  /\ [][(ppc = "p_wait_empty" /\ semEmpty = 0 /\ semEmpty' > 0)
          => (cpc = "c_signal_empty" /\ cpc' = "c_wait_full")]_vars

\* the producer is blocked on the full queue and the consumer is about to
\* complete a dequeue
C11_Witness ==
  /\ ppc = "p_wait_empty"
  /\ semEmpty = 0
  /\ cpc = "c_signal_empty"
  /\ Len(enqueued) = QUEUE_SIZE

\* the consumer has not begun a dequeue
Stalled == dequeued = <<>> /\ cpc \in {"c_start", "c_wait_full"}

BlockedOnEmpty == ppc = "p_wait_empty" /\ semEmpty = 0

\* C12: while the consumer has not begun a dequeue the producer completes at
\* most capacity enqueues; the call after the capacity-th is blocked in its
\* wait on empty_count without the lock, and stays blocked, with the control
\* block and the slots unchanged, for as long as the consumer stays stalled.
C12_StalledConsumer ==
  /\ [](Stalled => Len(enqueued) <= QUEUE_SIZE)
  /\ []((Stalled /\ Len(enqueued) = QUEUE_SIZE /\ ppc \in InWriteFrame)
          => (BlockedOnEmpty /\ mutex # "producer"))
  /\ [][(BlockedOnEmpty /\ Stalled /\ Stalled')
          => (BlockedOnEmpty' /\ ctrl' = ctrl /\ slots' = slots)]_vars

\* the producer has filled the queue and is blocked in the next call while
\* the attached consumer has taken nothing
C12_Witness ==
  /\ Stalled
  /\ cpc = "c_wait_full"
  /\ BlockedOnEmpty
  /\ Len(enqueued) = QUEUE_SIZE
  /\ ctrl[2] = QUEUE_SIZE

\* dequeues the consumer has completed (it has signalled empty_count)
CompletedDequeues ==
  Len(dequeued) -
    (IF cpc \in {"c_advance", "c_release_mutex", "c_signal_empty"} THEN 1 ELSE 0)

\* slots holding the frame of a completed enqueue whose dequeue is not complete
UnconsumedSlots ==
  {i \in 0..(QUEUE_SIZE - 1) :
     \E k \in (CompletedDequeues + 1)..Len(enqueued) :
       slots[i].frame_id = enqueued[k].frame_id}

\* C13: the producer is blocked on empty_count only when every slot holds a
\* frame whose dequeue is not complete, and the consumer is blocked on
\* full_count only when no slot holds the frame of a completed enqueue that is
\* not consumed.
C13_BlockingConditions ==
  /\ BlockedOnEmpty => Cardinality(UnconsumedSlots) = QUEUE_SIZE
  /\ (cpc = "c_wait_full" /\ semFull = 0) => UnconsumedSlots = {}

\* the producer is blocked while the consumer is inside its second dequeue
C13_Witness ==
  /\ BlockedOnEmpty
  /\ cpc = "c_release_mutex"
  /\ Len(dequeued) = 2

\* ----------------------------------------------- one write_frame call
\* SpecWrite: a single write_frame call on a queue that earlier calls have
\* filled and the consumer has drained, over a wider range of arguments.
\* detections past MAX_DETECTIONS in the widest argument list
MaxExtraDetections == 2
\* frames enqueued and dequeued before the call
MaxPrior == 9

\* n detections with non-zero fields, and an image
MkInput(n, img) ==
  [class_ids |-> [i \in 1..n |-> 10 + i], confs |-> [i \in 1..n |-> 50 + i],
   boxes |-> [i \in 1..n |-> Box(i, 2 * i, 3, 4)], image |-> img]

\* images of the right size, and of a wrong one: empty, one byte short, one
\* byte long
WriteImages ==
  {GrayImage, [i \in 1..image_size |-> 200 + i], <<>>,
   [i \in 1..(image_size - 1) |-> 9], [i \in 1..(image_size + 1) |-> 9]}

WriteInputs ==
  {MkInput(n, img) : n \in 0..(MAX_DETECTIONS + MaxExtraDetections),
                     img \in WriteImages}

\* arguments of the earlier calls
PriorInputs == {MkInput(MAX_DETECTIONS + 1, GrayImage), MkInput(1, <<>>)}

\* the earlier calls, all with arguments pin
Prior(k, pin) == [j \in 1..k |-> [frame_id |-> j, in |-> pin]]

\* what write_frame left in slot i over k earlier calls
PriorSlot(i, k, pin) ==
  LET js == {j \in 1..k : (j - 1) % QUEUE_SIZE = i}
  IN  IF js = {} THEN ZeroSlot
      ELSE LET last == CHOOSE j \in js : \A j2 \in js : j2 <= j
           IN  WriteImage(
                 WriteDetections(
                   WriteHeader(ZeroSlot, last, ClampNum(Len(pin.boxes))),
                   ClampNum(Len(pin.boxes)), pin),
                 pin.image)

InitWrite ==
  \E k \in 0..MaxPrior, pin \in PriorInputs, in \in WriteInputs :
    /\ open = [o \in Objs |-> Procs]
    /\ ctrl = [i \in 0..2 |-> IF i = 2 THEN k ELSE k % QUEUE_SIZE]
    /\ slots = [i \in 0..(QUEUE_SIZE - 1) |-> PriorSlot(i, k, pin)]
    /\ semEmpty = QUEUE_SIZE
    /\ semFull = 0
    /\ mutex = "none"
    /\ ppc = "p_wait_empty"
    /\ shm = TRUE
    /\ pCreated = TRUE
    /\ pFailed = FALSE
    /\ runs = 1
    /\ frame_id = k + 1
    /\ cur = in
    /\ write_idx = IF k = 0 THEN 0 ELSE (k - 1) % QUEUE_SIZE
    /\ num = IF k = 0 THEN 0 ELSE ClampNum(Len(pin.boxes))
    /\ cursor = IF k = 0 THEN 0
                ELSE SlotOffset((k - 1) % QUEUE_SIZE) + HEADER_SIZE +
                       DetsBytes(ClampNum(Len(pin.boxes)))
    /\ written = IF k = 0 THEN {}
                 ELSE Bytes(SlotOffset((k - 1) % QUEUE_SIZE), SLOT_SIZE)
    /\ cpc = "c_wait_full"
    /\ cframe = IF k = 0 THEN ZeroSlot ELSE PriorSlot((k - 1) % QUEUE_SIZE, k, pin)
    /\ enqueued = Prior(k, pin)
    /\ dequeued = [j \in 1..k |-> PriorSlot((j - 1) % QUEUE_SIZE, j, pin)]

SpecWrite == InitWrite /\ [][WriteFrameStep]_vars

\* write_frame has stored the header; the detections; the image
HeaderStored ==
  {"p_write_dets", "p_write_image", "p_advance", "p_release_mutex",
   "p_signal_full", "p_loop"}

DetsStored ==
  {"p_write_image", "p_advance", "p_release_mutex", "p_signal_full", "p_loop"}

ImageStored == {"p_advance", "p_release_mutex", "p_signal_full", "p_loop"}

\* C14: the stored detection_count is min(n, MAX_DETECTIONS), the stored
\* entries below it are the first input detections in input order, and the
\* call returns with write_index advanced and full_count signalled, for a list
\* longer than MAX_DETECTIONS too.
C14_Truncation ==
  /\ ppc \in HeaderStored =>
       slots[write_idx].num = Min(Len(cur.boxes), MAX_DETECTIONS)
  /\ ppc \in DetsStored =>
       \A i \in 1..Min(Len(cur.boxes), MAX_DETECTIONS) :
         slots[write_idx].dets[i] = InputDet(cur, i)
  /\ ppc = "p_loop" =>
       /\ ctrl[0] = (write_idx + 1) % QUEUE_SIZE
       /\ semFull = 1
       /\ enqueued[Len(enqueued)].in = cur

\* a call with more than MAX_DETECTIONS detections has returned
C14_Witness ==
  /\ ppc = "p_loop"
  /\ Len(cur.boxes) > MAX_DETECTIONS
  /\ slots[write_idx].num = MAX_DETECTIONS

\* C15: every entry from the stored count up to MAX_DETECTIONS is all zero
\* once the detections are stored, in a reused slot too.
C15_ZeroPadding ==
  ppc \in DetsStored =>
    \A i \in (slots[write_idx].num + 1)..MAX_DETECTIONS :
      slots[write_idx].dets[i] = ZeroDet

\* a call with no detection has rewritten a slot that held MAX_DETECTIONS
C15_Witness ==
  /\ ppc = "p_loop"
  /\ Len(cur.boxes) = 0
  /\ Len(enqueued) > QUEUE_SIZE
  /\ Len(enqueued[Len(enqueued) - QUEUE_SIZE].in.boxes) >= MAX_DETECTIONS

\* C16: a buffer of the wrong length leaves an all-zero image region and one
\* of the right length is stored as supplied; either way the header and the
\* detections are those of the arguments and the call returns with write_index
\* advanced, total_written incremented, the lock free and full_count
\* signalled.
C16_ImageMismatch ==
  /\ ppc \in ImageStored =>
       slots[write_idx].image =
         IF Len(cur.image) = image_size THEN cur.image ELSE ZeroImage
  /\ ppc = "p_loop" =>
       /\ slots[write_idx] = Expected([frame_id |-> frame_id, in |-> cur])
       /\ ctrl[0] = (write_idx + 1) % QUEUE_SIZE
       /\ ctrl[2] = Len(enqueued)
       /\ mutex = "none"
       /\ semFull = 1

\* a call with a buffer of the wrong length has rewritten a slot that held a
\* gray image
C16_Witness ==
  /\ ppc = "p_loop"
  /\ Len(cur.image) # image_size
  /\ Len(cur.boxes) > 0
  /\ Len(enqueued) > QUEUE_SIZE
  /\ enqueued[Len(enqueued) - QUEUE_SIZE].in.image = GrayImage

\* ------------------------------------------------- control block fields
ProducerStartup ==
  {"p_create_map", "p_map_view", "p_create_sync", "p_init_ctrl"}

\* C17: no step of the producer, in its startup or in write_frame, changes
\* read_index.
C17_ReadIndexUntouched ==
  [][(ppc \in (ProducerStartup \cup InWriteFrame) /\ ppc' # ppc)
       => ctrl'[1] = ctrl[1]]_vars

\* C18: while the producer runs, total_written is the number of completed
\* enqueues (one more between the increment and the return of write_frame)
\* and fits 32 signed bits; it never decreases while the region exists and
\* changes only by the increment of write_frame; whether write_frame blocks
\* is a matter of empty_count and of the lock, and the slot it writes and the
\* next write_index are a matter of write_index.
C18_TotalWritten ==
  /\ [](ppc \in (InWriteFrame \cup {"p_loop"}) =>
          /\ ctrl[2] = Len(enqueued) +
               (IF ppc \in {"p_release_mutex", "p_signal_full"} THEN 1 ELSE 0)
          /\ ctrl[2] <= 2147483647)
  /\ [][(Exists("shm") /\ ctrl'[2] # ctrl[2]) =>
          \/ ppc = "p_advance" /\ ppc' # ppc /\ ctrl'[2] = ctrl[2] + 1
          \/ ~Exists("shm")']_vars
  /\ [](ppc = "p_wait_empty" => ((ENABLED P_WaitEmpty) <=> semEmpty > 0))
  /\ [](ppc = "p_wait_mutex" => ((ENABLED P_WaitMutex) <=> mutex = "none"))
  /\ [][(ppc = "p_read_idx" /\ ppc' # ppc) => write_idx' = ctrl[0]]_vars
  /\ [][(ppc = "p_advance" /\ ppc' # ppc) =>
          ctrl'[0] = (write_idx + 1) % QUEUE_SIZE]_vars

\* write_frame has returned more often than the queue has slots
C18_Witness ==
  /\ ppc = "p_loop"
  /\ ctrl[2] > QUEUE_SIZE
  /\ ctrl[2] = Len(enqueued)

\* C19: a process waiting on its counting semaphore does not hold the lock,
\* and neither does a process about to signal the other side's semaphore.
C19_SemaphoreBeforeLock ==
  /\ ppc \in {"p_wait_empty", "p_signal_full"} => mutex # "producer"
  /\ cpc \in {"c_wait_full", "c_signal_empty"} => mutex # "consumer"

\* the producer is about to signal full_count while the consumer holds the
\* lock
C19_Witness ==
  /\ ppc = "p_signal_full"
  /\ mutex = "consumer"
  /\ cpc \in ConsumerCritical

\* C20: a step of write_frame changes no slot other than the one at the
\* write_index it read, and that one only between reading the index and
\* advancing it; it changes write_index and total_written only in the
\* advance, empty_count only by the -1 of its wait, full_count only by the +1
\* of its signal, and never read_index.
C20_EnqueueFrame ==
  [][(ppc \in InWriteFrame /\ ppc' # ppc) =>
       /\ ctrl'[1] = ctrl[1]
       /\ \A i \in 0..(QUEUE_SIZE - 1) :
            slots'[i] # slots[i] =>
              /\ i = write_idx
              /\ write_idx = ctrl[0]
              /\ ppc \in {"p_write_header", "p_write_dets", "p_write_image"}
       /\ (ctrl'[0] # ctrl[0] \/ ctrl'[2] # ctrl[2]) => ppc = "p_advance"
       /\ semEmpty' = semEmpty - (IF ppc = "p_wait_empty" THEN 1 ELSE 0)
       /\ semFull' = semFull + (IF ppc = "p_signal_full" THEN 1 ELSE 0)
       /\ ppc' = "p_loop" => mutex' # "producer"]_vars

\* write_frame has returned from rewriting a slot while the consumer is in a
\* dequeue
C20_Witness ==
  /\ ppc = "p_loop"
  /\ Len(enqueued) > QUEUE_SIZE
  /\ semFull > 0
  /\ cpc \in InDequeue

\* ------------------------------------------------------- whole slot
\* the stores of one write_frame call on a slot, in order
Serialize(slot, id, in) ==
  WriteImage(
    WriteDetections(WriteHeader(slot, id, ClampNum(Len(in.boxes))),
                    ClampNum(Len(in.boxes)), in),
    in.image)

\* a slot no field of which is zero or a value write_frame stores
JunkSlot ==
  [frame_id |-> 77, width |-> 78, height |-> 79, channels |-> 80, num |-> 81,
   dets |-> [i \in 1..MAX_DETECTIONS |->
               [class_id |-> 82, confidence |-> 83, x |-> 84, y |-> 85,
                width |-> 86, height |-> 87]],
   image |-> [i \in 1..image_size |-> 88]]

\* what a slot may hold when write_frame reaches it
PreviousContents ==
  {ZeroSlot, JunkSlot} \cup
  {PriorSlot(i, k, pin) : i \in 0..(QUEUE_SIZE - 1), k \in 0..QUEUE_SIZE,
                          pin \in PriorInputs}

\* C21: the slot left by an enqueue is the same whatever the slot held
\* before: the stores of write_frame applied to any two previous contents
\* with the arguments of the call give equal slots, and the slot the call
\* leaves is that one.
C21_FullOverwrite ==
  /\ \A a, b \in PreviousContents :
       Serialize(a, frame_id, cur) = Serialize(b, frame_id, cur)
  /\ ppc \in ImageStored =>
       \A a \in PreviousContents : slots[write_idx] = Serialize(a, frame_id, cur)

\* a call with few detections and an image of its own has rewritten a slot
\* that held more detections and a gray image
C21_Witness ==
  /\ ppc = "p_loop"
  /\ Len(enqueued) > QUEUE_SIZE
  /\ Len(enqueued[Len(enqueued) - QUEUE_SIZE].in.boxes) > Len(cur.boxes)
  /\ enqueued[Len(enqueued) - QUEUE_SIZE].in.image = GrayImage
  /\ cur.image \notin {GrayImage, <<>>}
  /\ slots[write_idx].image = cur.image

\* ---------------------------------------------------- slot addressing
\* the bytes of slot i
SlotBytes(i) == Bytes(SlotOffset(i), SLOT_SIZE)

\* C22: the write index lies in 0..QUEUE_SIZE-1; the bytes a call stores lie
\* in the slot at its write index, run without a gap from the slot's start
\* to the cursor, and are the whole slot once the image is stored, the last
\* store ending at the slot's end (frame_id > 0: a call has been made); the
\* slots do not overlap one another or the control block, and the last one
\* ends at SHM_SIZE.
C22_SlotAddressing ==
  /\ ppc \in (HeaderStored \cup {"p_write_header"}) =>
       /\ write_idx \in 0..(QUEUE_SIZE - 1)
       /\ written \subseteq SlotBytes(write_idx)
       /\ written \subseteq Bytes(CTRL_SIZE, SHM_SIZE - CTRL_SIZE)
  /\ ppc \in {"p_write_header", "p_write_dets", "p_write_image"} =>
       written = SlotOffset(write_idx)..(cursor - 1)
  /\ (ppc \in ImageStored /\ frame_id > 0) =>
       /\ written = SlotBytes(write_idx)
       /\ cursor + image_size = SlotOffset(write_idx) + SLOT_SIZE
  /\ \A i \in 0..(QUEUE_SIZE - 1) :
       /\ SlotBytes(i) \cap Bytes(0, CTRL_SIZE) = {}
       /\ \A j \in 0..(QUEUE_SIZE - 1) :
            i # j => SlotBytes(i) \cap SlotBytes(j) = {}
  /\ SlotOffset(QUEUE_SIZE - 1) + SLOT_SIZE = SHM_SIZE

\* a call on the last slot has stored up to the last byte of the region
C22_Witness ==
  /\ ppc = "p_loop"
  /\ write_idx = QUEUE_SIZE - 1
  /\ (SHM_SIZE - 1) \in written
  /\ Cardinality(written) = SLOT_SIZE

\* ---------------------------------------------------- semaphore counts
\* C23: both semaphore counts lie in 0..QUEUE_SIZE, and a process about to
\* signal holds the handle and finds the count below QUEUE_SIZE, so that its
\* ReleaseSemaphore succeeds.
C23_SemaphoreBounds ==
  /\ semEmpty \in 0..QUEUE_SIZE
  /\ semFull \in 0..QUEUE_SIZE
  /\ ppc = "p_signal_full" =>
       Holds("producer", "full") /\ semFull < QUEUE_SIZE
  /\ cpc = "c_signal_empty" =>
       Holds("consumer", "empty") /\ semEmpty < QUEUE_SIZE

\* the producer is about to raise full_count to QUEUE_SIZE
C23_Witness ==
  /\ ppc = "p_signal_full"
  /\ semFull = QUEUE_SIZE - 1
  /\ semEmpty = 0

\* ------------------------------------------------------- frame ids
\* C24: the j-th write_frame call to return was made with frame_id j and the
\* j-th record the consumer reads carries frame_id j; during a call frame_id
\* is one more than the number of calls that have returned; between calls it
\* equals that number, total_written, and (after the first call) the
\* frame_id in the slot last written.
C24_FrameIds ==
  /\ \A j \in 1..Len(enqueued) : enqueued[j].frame_id = j
  /\ \A j \in 1..Len(dequeued) : dequeued[j].frame_id = j
  /\ ppc \in InWriteFrame => frame_id = Len(enqueued) + 1
  /\ ppc = "p_loop" =>
       /\ frame_id = Len(enqueued)
       /\ ctrl[2] = frame_id
       /\ frame_id > 0 => slots[write_idx].frame_id = frame_id

\* more calls than the queue has slots have returned and the consumer has
\* read all but the last frame
C24_Witness ==
  /\ ppc = "p_loop"
  /\ frame_id = QUEUE_SIZE + 1
  /\ Len(dequeued) = QUEUE_SIZE
  /\ dequeued[QUEUE_SIZE].frame_id = QUEUE_SIZE
  /\ ctrl[2] = QUEUE_SIZE + 1

====
